---- MODULE Spec2Model ----
(***************************************************************************)
(* The SoX synthesizer effect (src/jni/sox/src/synth.c): start() builds    *)
(* the channels from the getopts templates, flow() produces frames of one  *)
(* sample per channel and advances the shared counter samples_done.        *)
(*                                                                         *)
(* Numbers.  A C double is modelled as a fixed-point integer counting      *)
(* 1/Scale units (1.0 is Scale); products and quotients truncate towards   *)
(* zero.  Sample-rates, frame counts and the pink-noise rows are plain     *)
(* integers, as in the code.                                               *)
(***************************************************************************)
EXTENDS Integers, Sequences, FiniteSets, TLC

(***************************************************************************)
(* Bounds of the model.                                                    *)
(***************************************************************************)
\* the most frames one flow call is given room for (*isamp, *osamp)
MaxLen == 2
\* flow calls are only started while samples_done is below the horizon,
\* which is this many frames past the first state
MaxFrames == 4
\* the most channel templates getopts leaves
MaxTemplates == 2
\* the largest configured length limit (samples_to_do), 0 = none
MaxLimit == 3
\* the most audio channels of the general engine specification
MaxChannels == 3
\* the highest channel index given a pink-noise generator
MaxPinkChan == 11
\* the frames of pink noise followed from one starting state
MaxPinkCalls == 2
\* the frames of brown noise followed (sixteen full steps reach the limit)
BrownFrames == 17
PluckFrames == 23

(***************************************************************************)
(* Program constants.                                                      *)
(***************************************************************************)
Scale == 1000
PINK_MAX_RANDOM_ROWS == 30
PINK_RANDOM_BITS == 24
SOX_SUCCESS == 0
SOX_EOF == -1
SOX_SAMPLE_MAX == 2147483647

Half == Scale \div 2

(***************************************************************************)
(* Fixed-point arithmetic.                                                 *)
(***************************************************************************)
Abs(x) == IF x < 0 THEN -x ELSE x

Min(a, b) == IF a < b THEN a ELSE b

\* C's division: the quotient truncated towards zero
Quot(a, b) ==
  IF b > 0
    THEN (IF a >= 0 THEN a \div b ELSE -((-a) \div b))
    ELSE (IF a >= 0 THEN -(a \div (-b)) ELSE ((-a) \div (-b)))

\* x * y of two fixed-point numbers
Mul(x, y) == Quot(x * y, Scale)

\* the magnitude standing for an infinite double
FInf == 2000 * Scale

\* x / y of two fixed-point numbers; a zero divisor gives +-infinity
Div(x, y) ==
  IF y = 0 THEN (IF x < 0 THEN -FInf ELSE FInf) ELSE Quot(x * Scale, y)

\* fmod(x, 1.0): the remainder keeps the sign of x
FMod1(x) == IF x >= 0 THEN x % Scale ELSE -((-x) % Scale)

\* fabs
FAbs(x) == Abs(x)

\* sign(x) of sox_i.h
sign(x) == IF x < 0 THEN -1 ELSE 1

\* sqr(x) of sox_i.h
sqr(x) == Mul(x, x)

RECURSIVE ISqrtBin(_, _, _)
\* the largest r in lo..hi with r*r <= n (hi*hi does not overflow)
ISqrtBin(n, lo, hi) ==
  IF lo >= hi THEN lo
  ELSE LET mid == (lo + hi + 1) \div 2
       IN IF mid * mid <= n THEN ISqrtBin(n, mid, hi) ELSE ISqrtBin(n, lo, mid - 1)

\* sqrt(x) of a fixed-point x >= 0
SqrtFx(x) == ISqrtBin(x * Scale, 0, 46340)

\* log(2) and sqrt(3.)
LN2 == 693
SQRT3 == 1732

RECURSIVE LnReduce(_, _)
\* <<m, k>> with x = m * 2^k and Scale <= m < 2*Scale
LnReduce(x, k) ==
  IF x >= 2 * Scale THEN LnReduce(x \div 2, k + 1)
  ELSE IF x < Scale THEN LnReduce(x * 2, k - 1)
  ELSE <<x, k>>

\* log(x) of a fixed-point x > 0: 2*atanh((m-1)/(m+1)) + k*log(2)
LnFx(x) ==
  LET mk == LnReduce(x, 0)
      m  == mk[1]
      z  == Div(m - Scale, m + Scale)
      z2 == Mul(z, z)
      z3 == Mul(z2, z)
      z5 == Mul(z3, z2)
  IN 2 * (z + Quot(z3, 3) + Quot(z5, 5)) + mk[2] * LN2

RECURSIVE Pow2Scale(_, _)
\* v * 2^k, truncated
Pow2Scale(v, k) ==
  IF k = 0 THEN v
  ELSE IF k > 0 THEN Pow2Scale(v * 2, k - 1)
  ELSE IF v = 0 THEN 0
  ELSE Pow2Scale(v \div 2, k + 1)

\* exp(y) of a fixed-point y: exp(r) * 2^k with y = k*log(2) + r, 0 <= r < log(2)
ExpFx(y) ==
  LET k  == y \div LN2
      r  == y - k * LN2
      r2 == Mul(r, r)
      r3 == Mul(r2, r)
      r4 == Mul(r3, r)
      er == Scale + r + Quot(r2, 2) + Quot(r3, 6) + Quot(r4, 24)
  IN Pow2Scale(er, k)

\* sin(2 * M_PI * phase) for a phase in (-1, 1): Bhaskara's rational
\* approximation of each half period, odd in the phase
SinHalf(x) ==
  LET u == Mul(x, Scale - x)
  IN Quot(16 * u * Scale, 5 * Scale - 4 * u)

SinFx(phase) ==
  LET a == Abs(phase)
      h == IF a < Half THEN SinHalf(2 * a) ELSE -SinHalf(2 * (a - Half))
  IN IF phase < 0 THEN -h ELSE h

(***************************************************************************)
(* type_t, combine_t and sweep_t.                                          *)
(***************************************************************************)
synth_sine == 0
synth_square == 1
synth_sawtooth == 2
synth_triangle == 3
synth_trapezium == 4
synth_exp == 5
synth_whitenoise == 6
synth_noise == synth_whitenoise
synth_tpdfnoise == 7
synth_pinknoise == 8
synth_brownnoise == 9
synth_pluck == 10

synth_create == 0
synth_mix == 1
synth_amod == 2
synth_fmod == 3

Linear == 0
Square == 1
Exp == 2
Exp_cycle == 3

(***************************************************************************)
(* The pink noise generator.  pink_Scalar is 1.0f / pmax and is kept as    *)
(* pmax.  pink_Rows has PINK_MAX_RANDOM_ROWS cells, row i at position      *)
(* i + 1 of the sequence; maxRow is a history field, the highest row index *)
(* the two functions have read or written.                                 *)
(***************************************************************************)
RowIndexes == 0 .. (PINK_MAX_RANDOM_ROWS - 1)

RECURSIVE Pow2(_)
Pow2(n) == IF n = 0 THEN 1 ELSE 2 * Pow2(n - 1)

\* the least and the greatest value of RANQD1 >> PINK_RANDOM_SHIFT
PinkMin == -Pow2(PINK_RANDOM_BITS - 1)
PinkMax == Pow2(PINK_RANDOM_BITS - 1) - 1

\* the zeroed PinkNoise of a channel that create_channel has memset
ZeroPink ==
  [pink_Rows |-> [i \in 1 .. PINK_MAX_RANDOM_ROWS |-> 0], pink_RunningSum |-> 0,
   pink_Index |-> 0, pink_IndexMask |-> 0, pmax |-> 0, maxRow |-> -1]

\* x & mask for a mask of the form 2^j - 1, or -1 (all bits set)
BitAnd(x, mask) == IF mask = -1 THEN x ELSE x % (mask + 1)

InitializePinkNoise(pink, numRows, mask) ==
  [pink_Rows       |-> [i \in 1 .. PINK_MAX_RANDOM_ROWS |->
                         IF i - 1 < numRows THEN 0 ELSE pink.pink_Rows[i]],
   pink_RunningSum |-> 0,
   pink_Index      |-> 0,
   pink_IndexMask  |-> mask,
   pmax            |-> (numRows + 1) * Pow2(PINK_RANDOM_BITS - 1),
   maxRow          |-> IF numRows - 1 > pink.maxRow THEN numRows - 1 ELSE pink.maxRow]

\* a row choice that ignores the counter
TrailingZerosNone(n) == 0

RECURSIVE TrailingZeros(_)
\* the loop `while ((n & 1) == 0) { n = n >> 1; numZeros++; }', n # 0
TrailingZeros(n) == IF n % 2 = 1 THEN 0 ELSE 1 + TrailingZeros(n \div 2)

\* a generator that adds the new row value without removing the old one
GeneratePinkNoiseNoSubtract(pink, r1, r2) ==
  LET idx      == BitAnd(pink.pink_Index + 1, pink.pink_IndexMask)
      numZeros == TrailingZeros(idx)
      inRange  == idx # 0 /\ numZeros \in RowIndexes
      running  == IF inRange THEN pink.pink_RunningSum + r1 ELSE pink.pink_RunningSum
      rows     == IF inRange
                    THEN [pink.pink_Rows EXCEPT ![numZeros + 1] = r1]
                    ELSE pink.pink_Rows
  IN [state |-> [pink EXCEPT !.pink_Index = idx,
                             !.pink_RunningSum = running,
                             !.pink_Rows = rows,
                             !.maxRow = IF idx # 0 /\ numZeros > pink.maxRow
                                          THEN numZeros ELSE pink.maxRow],
      sum   |-> running + r2]

\* the generator after one call that draws r1 for the row and r2 as the
\* extra white value; .sum is the value scaled to the output
GeneratePinkNoise(pink, r1, r2) ==
  LET idx      == BitAnd(pink.pink_Index + 1, pink.pink_IndexMask)
      numZeros == TrailingZeros(idx)
      inRange  == idx # 0 /\ numZeros \in RowIndexes
      running  == IF inRange
                    THEN pink.pink_RunningSum - pink.pink_Rows[numZeros + 1] + r1
                    ELSE pink.pink_RunningSum
      rows     == IF inRange
                    THEN [pink.pink_Rows EXCEPT ![numZeros + 1] = r1]
                    ELSE pink.pink_Rows
  IN [state |-> [pink EXCEPT !.pink_Index = idx,
                             !.pink_RunningSum = running,
                             !.pink_Rows = rows,
                             !.maxRow = IF idx # 0 /\ numZeros > pink.maxRow
                                          THEN numZeros ELSE pink.maxRow],
      sum   |-> running + r2]

\* a / b for 0 <= a <= b, in 1/Scale units, without leaving 32 bits
\* (Scale = 5 * 5 * 5 * 8; a remainder is below b <= 31 * 2^23)
UnitFraction(a, b) ==
  IF a >= b THEN Scale
  ELSE LET q1 == (a * 5) \div b
           r1 == (a * 5) % b
           q2 == (r1 * 5) \div b
           r2 == (r1 * 5) % b
           q3 == (r2 * 5) \div b
           r3 == (r2 * 5) % b
           q4 == (r3 * 8) \div b
       IN q1 * 200 + q2 * 40 + q3 * 8 + q4

\* output = pink_Scalar * sum
PinkOutput(sum, pmax) ==
  IF Abs(sum) > pmax THEN (IF sum < 0 THEN -Scale - 1 ELSE Scale + 1)
  ELSE IF sum < 0 THEN -UnitFraction(-sum, pmax) ELSE UnitFraction(sum, pmax)

(***************************************************************************)
(* channel_t.                                                              *)
(***************************************************************************)
create_channel ==
  [type |-> synth_sine, combine |-> synth_create,
   freq |-> 440 * Scale, freq2 |-> 440 * Scale, mult |-> 0, sweep |-> Linear,
   offset |-> 0, phase |-> 0, p1 |-> -Scale, p2 |-> -Scale, p3 |-> -Scale,
   lp_last_out |-> 0, hp_last_out |-> 0, hp_last_in |-> 0,
   ap_last_out |-> 0, ap_last_in |-> 0,
   cycle_start_time_s |-> 0, c0 |-> 0, c1 |-> 0, c2 |-> 0, c3 |-> 0, c4 |-> 0,
   pink_noise |-> ZeroPink,
   buffer |-> <<>>, buffer_len |-> 0, pos |-> 0]

\* set_default_parameters(chan, c); mask is the value of (1 << numRows) - 1
set_default_parameters(chan, c, mask) ==
  CASE chan.type = synth_square ->
         IF chan.p1 < 0 THEN [chan EXCEPT !.p1 = Half] ELSE chan
    [] chan.type = synth_triangle ->
         IF chan.p1 < 0 THEN [chan EXCEPT !.p1 = Half] ELSE chan
    [] chan.type = synth_trapezium ->
         IF chan.p1 < 0
           THEN [chan EXCEPT !.p1 = Scale \div 10, !.p2 = Half, !.p3 = (6 * Scale) \div 10]
         ELSE IF chan.p2 < 0
           THEN IF chan.p1 <= Half
                  THEN [chan EXCEPT !.p2 = Quot(Scale - 2 * chan.p1, 2),
                                    !.p3 = Quot(Scale - 2 * chan.p1, 2) + chan.p1]
                  ELSE [chan EXCEPT !.p2 = chan.p1, !.p3 = Scale]
         ELSE IF chan.p3 < 0
           THEN [chan EXCEPT !.p3 = Scale]
         ELSE chan
    [] chan.type = synth_pinknoise ->
         [chan EXCEPT !.pink_noise = InitializePinkNoise(chan.pink_noise, 10 + 2 * c, mask)]
    [] chan.type = synth_exp ->
         [chan EXCEPT !.p1 = IF chan.p1 < 0 THEN Half ELSE chan.p1,
                      !.p2 = IF chan.p2 < 0 THEN Half ELSE chan.p2]
    [] chan.type = synth_pluck ->
         [chan EXCEPT !.p1 = IF chan.p1 < 0 THEN (4 * Scale) \div 10 ELSE chan.p1,
                      !.p2 = IF chan.p2 < 0 THEN (2 * Scale) \div 10 ELSE chan.p2,
                      !.p3 = IF chan.p2 < 0 THEN (9 * Scale) \div 10 ELSE chan.p3]
    [] OTHER -> chan

\* the sweep multiplier start() derives, and the base frequency it leaves
SweepMult(chan, samples_to_do, rate) ==
  CASE chan.sweep = Linear ->
         IF samples_to_do # 0
           THEN Quot(Quot(chan.freq2 - chan.freq, samples_to_do), 2) ELSE 0
    [] chan.sweep = Square ->
         LET m == IF samples_to_do # 0
                    THEN Div(Quot(SqrtFx(FAbs(chan.freq2 - chan.freq)), samples_to_do), SQRT3)
                    ELSE 0
         IN IF chan.freq > chan.freq2 THEN -m ELSE m
    [] chan.sweep = Exp ->
         IF samples_to_do # 0
           THEN Quot(LnFx(Div(chan.freq2, chan.freq)), samples_to_do) * rate ELSE Scale
    [] OTHER ->
         IF samples_to_do # 0
           THEN Quot(LnFx(chan.freq2) - LnFx(chan.freq), samples_to_do) ELSE Scale

SweepSetup(chan, samples_to_do, rate) ==
  LET m == SweepMult(chan, samples_to_do, rate)
  IN [chan EXCEPT !.mult = m,
                  !.freq = IF chan.sweep = Exp THEN Div(chan.freq, m) ELSE chan.freq]

(***************************************************************************)
(* start(): the set-up of a pluck channel.                                 *)
(***************************************************************************)
M_PI == 3142

\* ranqd1(x) of sox_i.h, x = 1664525 * x + 1013904223 modulo 2^32, on the
\* two 16-bit halves of x
ranqd1(r) ==
  LET p   == 26125 * r.lo
      lo1 == (p % 65536) + 62303
      hi1 == 26125 * r.hi + 25 * r.lo + (p \div 65536) + (lo1 \div 65536) + 15470
  IN [hi |-> hi1 % 65536, lo |-> lo1 % 65536]

\* dranqd1(x) of sox_i.h: the signed 32-bit x as a fraction of 2^31
dranqd1(r) ==
  Quot((IF r.hi >= 32768 THEN r.hi - 65536 ELSE r.hi) * Scale, 32768)

\* the state of a generator holding the non-negative value v
Seed(v) == [hi |-> v \div 65536, lo |-> v % 65536]

\* the values sox_globals.ranqd1 is given when the excitation draws from it
GlobalSeeds == {Seed(0), Seed(12345)}

\* chan->c0 = d - sqrt(d * d - 1) with d >= 1 is a value of (0, 1]; d's
\* distance from 1 is below the resolution of the fixed point, and the
\* coefficient is taken from this grid of (0, 1)
CoefGrid == {Scale \div 100, Half, (9 * Scale) \div 10}

\* a test of the lower limit only
PluckRateAtLeast(r) == ~(r < 44100)

\* the rates start() accepts for a pluck channel
PluckRateOk(r) == ~(r < 44100 \/ r > 48000)

\* a / b for integers a >= 0, b > 0 as a fixed-point number
FxRatio(a, b) == (a \div b) * Scale + UnitFraction(a % b, b)

\* chan->c1 = (1 - c0) * exp(-2e4 / (.05 + p1) / freq / rate)
PluckDecay(chan, r, c0) ==
  LET t == FxRatio(Quot(20000 * Scale, (Scale \div 20) + chan.p1) * Scale, chan.freq)
  IN Mul(Scale - c0, ExpFx(-Quot(t, r)))

\* rate / freq - d, the delay in samples, and its split into buffer_len and frac
PluckDelay(chan, r, d) == FxRatio(r * Scale, chan.freq) - d

RECURSIVE DrawExcitation(_, _, _, _)
RECURSIVE DrawKept(_, _, _, _, _)
\* do d = d1 + dranqd1(r) * colour; while (fabs(d) > 1);
DrawExcitation(d1, r, colour, tries) ==
  DrawKept(d1, ranqd1(r), colour, tries, d1 + Mul(dranqd1(ranqd1(r)), colour))

\* the test of the loop for the value d drawn with the generator at r1
\* (tries bounds the recursion; |d1| <= 1 and colour <= 1, so a draw of the
\* sign opposite to d1 ends the loop)
DrawKept(d1, r1, colour, tries, d) ==
  IF FAbs(d) > Scale /\ tries > 0
    THEN DrawExcitation(d1, r1, colour, tries - 1)
    ELSE [d |-> d, r |-> r1]

RECURSIVE Excite(_, _, _, _, _, _)
RECURSIVE ExciteCell(_, _, _, _, _)
\* the loop over j of one excitation pass k
Excite(buffer, j, d1, r, colour, k) ==
  IF j > Len(buffer) THEN [buffer |-> buffer, r |-> r]
  ELSE ExciteCell(buffer, j, DrawExcitation(d1, r, colour, 64), colour, k)

\* chan->buffer[j] += d * (1 - .3 * k); d1 = d * (colour != 1);
ExciteCell(buffer, j, e, colour, k) ==
  Excite([buffer EXCEPT ![j] = buffer[j] + Mul(e.d, Scale - 300 * k)],
         j + 1, IF colour # Scale THEN e.d ELSE 0, e.r, colour, k)

\* pow(2., 4 * (p2 - 1))
Colour(p2) == ExpFx(Mul(4 * (p2 - Scale), LN2))

\* the generator of a pass: sox_globals.ranqd1 if chan->phase is set, else
\* the local int32_t r = p2 * 100 + .5
PassSeed(chan, p2, global) ==
  IF chan.phase # 0 THEN global ELSE Seed(Quot(p2 * 100 + Half, Scale))

\* the pass k = 0, with p2 = chan->p2
FirstPass(chan, len, global) ==
  IF chan.p2 >= 0
    THEN Excite([j \in 1 .. len |-> 0], 1, 0, PassSeed(chan, chan.p2, global),
                Colour(chan.p2), 0)
    ELSE [buffer |-> [j \in 1 .. len |-> 0], r |-> global]

\* the pass k = 1, with p2 = chan->p3
SecondPass(chan, pass0) ==
  IF chan.p2 >= 0 /\ chan.p3 >= 0
    THEN Excite(pass0.buffer, 1, 0, PassSeed(chan, chan.p3, pass0.r), Colour(chan.p3), 1)
    ELSE pass0

\* for (k = 0, p2 = chan->p2; k < 2 && p2 >= 0; ++k, p2 = chan->p3)
Excitation(chan, len, global) == SecondPass(chan, FirstPass(chan, len, global)).buffer

RECURSIVE Graduate(_, _, _)
RECURSIVE GraduateCell(_, _, _, _, _)
\* in-delay filter graduation: g holds the buffer, lp_last_out, ap_last_out,
\* ap_last_in, min and max
Graduate(chan, j, g) ==
  IF j > Len(g.buffer) THEN g
  ELSE GraduateCell(chan, j, g, Quot((j - 1) * Scale, Len(g.buffer)),
                    Mul(g.buffer[j], chan.c1) + Mul(g.lp_last_out, chan.c0))

\* the body of the loop for t = j / buffer_len and the low-passed value d
GraduateCell(chan, j, g, t, d) ==
  Graduate(chan, j + 1,
    [buffer |-> [g.buffer EXCEPT ![j] =
                   Mul(g.buffer[j], Scale - t)
                     + Mul(Mul(d, chan.c4) + g.ap_last_in - Mul(g.ap_last_out, chan.c4), t)],
     lp_last_out |-> d,
     ap_last_out |-> Mul(d, chan.c4) + g.ap_last_in - Mul(g.ap_last_out, chan.c4),
     ap_last_in |-> d,
     min |-> Min(g.min, Mul(g.buffer[j], Scale - t)
                   + Mul(Mul(d, chan.c4) + g.ap_last_in - Mul(g.ap_last_out, chan.c4), t)),
     max |-> IF Mul(g.buffer[j], Scale - t)
                  + Mul(Mul(d, chan.c4) + g.ap_last_in - Mul(g.ap_last_out, chan.c4), t)
                  > g.max
               THEN Mul(g.buffer[j], Scale - t)
                      + Mul(Mul(d, chan.c4) + g.ap_last_in - Mul(g.ap_last_out, chan.c4), t)
               ELSE g.max])

\* buffer[j] = (2 * buffer[j] - max - min) / (max - min)
Normalise(buffer, min, max) ==
  [j \in 1 .. Len(buffer) |-> Div(2 * buffer[j] - max - min, max - min)]

\* the filter coefficients and the delay for c1, c2 and the delay dly in
\* samples: buffer_len is dly truncated and frac the rest
PluckCoefs(chan, c0, c1, c2, dly) ==
  [chan EXCEPT !.c0 = c0, !.c1 = c1, !.c2 = c2,
               !.c3 = Mul(Scale + c2, Half),
               !.c4 = Div(Scale - (dly - Quot(dly, Scale) * Scale),
                          Scale + (dly - Quot(dly, Scale) * Scale)),
               !.buffer_len = Quot(dly, Scale), !.pos = 0]

PluckFilters(chan, r, c0, c1) ==
  PluckCoefs(chan, c0, c1, ExpFx(Quot(-2 * M_PI * 10, r)),
             PluckDelay(chan, r, Div(c0, c0 + c1)))

\* the channel after graduation has left g
PluckStore(chan, g) ==
  [chan EXCEPT !.buffer = Normalise(g.buffer, g.min, g.max),
               !.lp_last_out = g.lp_last_out,
               !.ap_last_out = g.ap_last_out,
               !.ap_last_in = g.ap_last_in]

\* excitation, in-delay filter graduation and normalisation
PluckBuffer(chan, global) ==
  PluckStore(chan,
    Graduate(chan, 1,
      [buffer |-> Excitation(chan, chan.buffer_len, global),
       lp_last_out |-> chan.lp_last_out, ap_last_out |-> chan.ap_last_out,
       ap_last_in |-> chan.ap_last_in, min |-> 0, max |-> 0]))

\* the body of `if (chan->type == synth_pluck)' when the rate is accepted
PluckSetup(chan, r, c0, global) ==
  PluckBuffer(PluckFilters(chan, r, c0, PluckDecay(chan, r, c0)), global)

\* range_limit(x, -1, 1)
range_limit(x) == IF x < -Scale THEN -Scale ELSE IF x > Scale THEN Scale ELSE x

\* a position that runs on past the end of the buffer
NextPosUnwrapped(pos, buffer_len) == pos + 1

\* chan->pos = chan->pos + 1 == chan->buffer_len? 0 : chan->pos + 1
NextPos(pos, buffer_len) == IF pos + 1 = buffer_len THEN 0 ELSE pos + 1

\* flow(): case synth_pluck
PluckSample(chan) ==
  LET d0  == chan.buffer[chan.pos + 1]
      hpo == Mul(d0 - chan.hp_last_in, chan.c3) + Mul(chan.hp_last_out, chan.c2)
      d   == Mul(d0, chan.c1) + Mul(chan.lp_last_out, chan.c0)
      apo == Mul(d - chan.ap_last_out, chan.c4) + chan.ap_last_in
  IN [chan |-> [chan EXCEPT !.hp_last_out = hpo, !.hp_last_in = d0,
                            !.lp_last_out = d,
                            !.ap_last_out = apo,
                            !.buffer = [chan.buffer EXCEPT ![chan.pos + 1] = apo],
                            !.ap_last_in = d,
                            !.pos = NextPos(chan.pos, chan.buffer_len)],
      synth_out |-> range_limit(hpo)]

(***************************************************************************)
(* flow(): the phase of a tonal channel at samples_done = n.               *)
(***************************************************************************)
\* elapsed_time_s
ElapsedTime(n, rate) == Quot(n * Scale, rate)

\* the phase before the fmod step and the channel's cycle_start_time_s after
RawPhase(chan, n, rate) ==
  CASE chan.sweep = Linear ->
         [phase |-> Quot((chan.freq + n * chan.mult) * n, rate),
          cycle_start_time_s |-> chan.cycle_start_time_s]
    [] chan.sweep = Square ->
         [phase |-> Quot((chan.freq + sign(chan.mult) * sqr(n * chan.mult)) * n, rate),
          cycle_start_time_s |-> chan.cycle_start_time_s]
    [] chan.sweep = Exp ->
         [phase |-> Mul(chan.freq, ExpFx(Quot(chan.mult * n, rate))),
          cycle_start_time_s |-> chan.cycle_start_time_s]
    [] OTHER ->
         LET f    == Mul(chan.freq, ExpFx(n * chan.mult))
             t    == ElapsedTime(n, rate)
             next == Mul(f, t - chan.cycle_start_time_s) >= Scale
             cs   == IF next THEN chan.cycle_start_time_s + Div(Scale, f)
                             ELSE chan.cycle_start_time_s
         IN [phase |-> Mul(f, t - cs), cycle_start_time_s |-> cs]

\* phase = fmod(phase + chan->phase, 1.0)
ReducePhase(raw, offset) == FMod1(raw + offset)

(***************************************************************************)
(* flow(): the waveform switch.                                            *)
(***************************************************************************)
\* a comparison that puts the boundary phase in the high part
SquareWaveInclusive(phase, p1) == -Scale + 2 * (IF phase <= p1 THEN Scale ELSE 0)

\* synth_out = -1 + 2 * (phase < chan->p1)
SquareWave(phase, p1) == -Scale + 2 * (IF phase < p1 THEN Scale ELSE 0)

SawtoothWave(phase) == -Scale + 2 * phase

TriangleWave(phase, p1) ==
  IF phase < p1
    THEN -Scale + Div(2 * phase, p1)
    ELSE Scale - Div(2 * (phase - p1), Scale - p1)

TrapeziumWave(phase, p1, p2, p3) ==
  IF phase < p1 THEN -Scale + Div(2 * phase, p1)
  ELSE IF phase < p2 THEN Scale
  ELSE IF phase < p3 THEN Scale - Div(2 * (phase - p2), p3 - p2)
  ELSE -Scale

\* log(1 / dB_to_linear(p2 * -200)) = p2 * 10 * log(10)
ExpDepth(p2) == Quot(p2 * 23026, Scale)

\* synth_out * exp(x * log(1 / synth_out) / w) with synth_out = exp(-depth),
\* evaluated as exp(x * depth / w - depth); then mapped from 0..1 to -1..+1
ExpWave(phase, p1, p2) ==
  LET depth == ExpDepth(p2)
      e == IF phase < p1
             THEN ExpFx(Div(Mul(phase, depth), p1) - depth)
             ELSE ExpFx(Div(Mul(Scale - phase, depth), Scale - p1) - depth)
  IN e * 2 - Scale

ToneOut(chan, phase) ==
  CASE chan.type = synth_sine      -> SinFx(phase)
    [] chan.type = synth_square    -> SquareWave(phase, chan.p1)
    [] chan.type = synth_sawtooth  -> SawtoothWave(phase)
    [] chan.type = synth_triangle  -> TriangleWave(phase, chan.p1)
    [] chan.type = synth_trapezium -> TrapeziumWave(phase, chan.p1, chan.p2, chan.p3)
    [] chan.type = synth_exp       -> ExpWave(phase, chan.p1, chan.p2)
    [] OTHER -> 0

(***************************************************************************)
(* The random source (RANQD1 and DRANQD1 of sox_i.h).  A draw is given by  *)
(* the top PINK_RANDOM_BITS bits of the 32-bit value, which is what        *)
(* RANQD1 >> PINK_RANDOM_SHIFT keeps; DRANQD1 is that value as a           *)
(* fraction of full scale.                                                 *)
(***************************************************************************)
RanSet == {PinkMin, PinkMin \div 2, 0, PinkMax \div 2, PinkMax}

RanExtremes == {PinkMin, PinkMax}

BrownDraws == {PinkMin, 0, PinkMax}

DRANQD1(r) == Quot(Quot(r, 1024) * Scale, 8192)

\* the draws a sample of this type consumes (two at most are told apart)
DrawsOf(type) ==
  CASE type = synth_whitenoise -> RanSet \X {0}
    [] type = synth_tpdfnoise  -> RanSet \X RanSet
    [] type = synth_pinknoise  -> RanExtremes \X RanExtremes
    [] type = synth_brownnoise -> BrownDraws \X BrownDraws
    [] OTHER -> {<<0, 0>>}

\* brown noise: do synth_out = lp_last_out + DRANQD1 * (1. / 16);
\* while (fabs(synth_out) > 1): the first draw, or after its rejection the
\* second; Rejected says that neither is kept
BrownStep(lp_last_out, r) == lp_last_out + Quot(DRANQD1(r), 16)

BrownRedrawn(lp_last_out, draws) == FAbs(BrownStep(lp_last_out, draws[1])) > Scale

BrownRejected(lp_last_out, draws) ==
  /\ BrownRedrawn(lp_last_out, draws)
  /\ FAbs(BrownStep(lp_last_out, draws[2])) > Scale

\* a step that keeps its first draw whatever it gives
BrownOutUnchecked(lp_last_out, draws) == BrownStep(lp_last_out, draws[1])

BrownOut(lp_last_out, draws) ==
  IF BrownRedrawn(lp_last_out, draws)
    THEN BrownStep(lp_last_out, draws[2])
    ELSE BrownStep(lp_last_out, draws[1])

(***************************************************************************)
(* flow(): offset, combine and the conversion to sox_sample_t.             *)
(***************************************************************************)
\* an offset added without scaling the signal down first
AddOffsetUnscaled(synth_out, offset) == synth_out + offset

\* synth_out * (1 - fabs(chan->offset)) + chan->offset
AddOffset(synth_out, offset) == Mul(synth_out, Scale - FAbs(offset)) + offset

\* s * m for a fixed-point s (|s| <= Scale) and a sample m, as the exact
\* value whole + frac / Scale with 0 <= frac < Scale
Scaled(s, m) ==
  LET neg == (s < 0) # (m < 0)
      a   == Abs(s)
      mh  == Abs(m) \div Scale
      ml  == Abs(m) % Scale
      w   == a * mh + (a * ml) \div Scale
      f   == (a * ml) % Scale
  IN IF ~neg \/ (w = 0 /\ f = 0) THEN [whole |-> w, frac |-> f]
     ELSE IF f = 0 THEN [whole |-> -w, frac |-> 0]
     ELSE [whole |-> -w - 1, frac |-> Scale - f]

\* (x + y) * .5 for an exact value x and a sample y
HalfSum(x, y) ==
  LET t == ((x.whole % 2) + (y % 2)) * Half + x.frac \div 2
  IN [whole |-> (x.whole \div 2) + (y \div 2) + t \div Scale, frac |-> t % Scale]

\* the double the combine switch leaves in synth_out
Combine(combine, s, synth_input) ==
  CASE combine = synth_create -> Scaled(s, SOX_SAMPLE_MAX)
    [] combine = synth_mix    -> HalfSum(Scaled(s, SOX_SAMPLE_MAX), synth_input)
    [] combine = synth_amod   -> HalfSum(Scaled(s, synth_input), synth_input)
    [] OTHER                  -> Scaled(s, synth_input)

\* synth_out < 0? synth_out * gain - .5 : synth_out * gain + .5, gain = 1,
\* converted to the integer sample (truncation)
ToSample(x) ==
  IF x.whole >= 0
    THEN x.whole + (IF x.frac >= Half THEN 1 ELSE 0)
    ELSE IF x.frac > Half THEN x.whole + 1
    ELSE x.whole

\* the values the conversion of a double beyond the range of sox_sample_t
\* can leave (the conversion is undefined)
OutOfRangeSamples == {-SOX_SAMPLE_MAX, 0, SOX_SAMPLE_MAX}

\* the samples *obuf++ can receive for the synthesized value s
OutputSamples(combine, s, synth_input) ==
  IF FAbs(s) > Scale THEN OutOfRangeSamples
  ELSE {ToSample(Combine(combine, s, synth_input))}

(***************************************************************************)
(* The state: priv_t, the effect's signal parameters, and the position of  *)
(* a flow call in its two loops.                                           *)
(***************************************************************************)
VARIABLES
  rate,               \* effp->in_signal.rate
  number_of_channels, \* effp->in_signal.channels
  getopts_channels,   \* the templates getopts built
  samples_to_do,      \* the parsed length, 0 when no length was given
  samples_done,
  channels,           \* p->channels, <<>> before start
  pc,                 \* "getopts" before start, "idle" between flow calls, "flow"
  len, done, c, result, \* flow's locals
  trace,              \* what this flow call has written to obuf, in order
  ret,                \* what the last flow call returned
  horizon             \* flow calls start while samples_done < horizon

vars == <<rate, number_of_channels, getopts_channels, samples_to_do, samples_done,
          channels, pc, len, done, c, result, trace, ret, horizon>>

\* a start that repeats the last template instead of cycling
TemplateIndexClamped(i, nchannels) == IF i < nchannels THEN i ELSE nchannels - 1

\* getopts_channels[i % getopts_nchannels]
TemplateIndex(i, nchannels) == i % nchannels

\* (1 << numRows) - 1.  The shift is defined below the width of int and
\* undefined from 32 on, where a build either shifts by numRows modulo 32
\* ("wrap"), or shifts every bit out ("out"), or, the rows past the array
\* overlaying the fields after it, has the mask zeroed by the row loop
PinkMask(numRows, build) ==
  IF numRows < 31 THEN Pow2(numRows) - 1
  ELSE CASE build = "wrap" -> Pow2(numRows % 32) - 1
         [] build = "out"  -> -1
         [] OTHER          -> 0

Builds == {"wrap", "out", "clobber"}

\* what start() cannot derive in the fixed point for a pluck channel: c0
\* and the state of sox_globals.ranqd1
NoPluck == [c0 |-> 0, global |-> Seed(0)]

PluckChoices(type) ==
  IF type = synth_pluck
    THEN { [c0 |-> c0, global |-> g] : c0 \in CoefGrid, g \in GlobalSeeds }
    ELSE {NoPluck}

\* the set-up that follows set_default_parameters for a pluck channel
PluckIfPluck(chan, r, choice) ==
  IF chan.type = synth_pluck
    THEN PluckSetup(chan, r, choice.c0, choice.global) ELSE chan

\* one iteration of start()'s loop: channel i of the effect
StartChannel(templates, i, todo, r, build, choice) ==
  SweepSetup(
    PluckIfPluck(
      set_default_parameters(templates[TemplateIndex(i, Len(templates)) + 1], i,
                             PinkMask(10 + 2 * i, build)),
      r, choice),
    todo, r)

\* the indexes of the channels at which start() returns SOX_EOF
RejectedChannels(templates, nch, r) ==
  { i \in 0 .. nch - 1 :
      /\ templates[TemplateIndex(i, Len(templates)) + 1].type = synth_pluck
      /\ ~PluckRateOk(r) }

\* the number of channels start()'s loop completes
StartedChannels(templates, nch, r) ==
  LET bad == RejectedChannels(templates, nch, r)
  IN IF bad = {} THEN nch ELSE CHOOSE i \in bad : \A j \in bad : i <= j

Start ==
  /\ pc = "getopts"
  /\ \E build \in Builds :
       \E choices \in [1 .. number_of_channels ->
                         UNION {PluckChoices(t.type) : t \in {getopts_channels[j] :
                                  j \in 1 .. Len(getopts_channels)}}] :
         /\ \A k \in 1 .. number_of_channels :
              choices[k] \in PluckChoices(
                getopts_channels[TemplateIndex(k - 1, Len(getopts_channels)) + 1].type)
         /\ channels' =
              [k \in 1 .. StartedChannels(getopts_channels, number_of_channels, rate) |->
                 StartChannel(getopts_channels, k - 1, samples_to_do, rate, build,
                              choices[k])]
  /\ samples_done' = 0
  /\ pc' = IF RejectedChannels(getopts_channels, number_of_channels, rate) = {}
             THEN "idle" ELSE "failed"
  /\ UNCHANGED <<rate, number_of_channels, getopts_channels, samples_to_do,
                 len, done, c, result, trace, ret, horizon>>

\* the sizes of the buffers a flow call is given: whole frames, or one
\* sample short of a whole frame
BufferSizes(nch) ==
  { k * nch + j : k \in 0 .. MaxLen, j \in {0, nch - 1} }

FlowBegin ==
  /\ pc = "idle"
  /\ samples_done < horizon
  /\ \E isamp \in BufferSizes(number_of_channels),
        osamp \in BufferSizes(number_of_channels) :
       len' = Min(isamp, osamp) \div number_of_channels
  /\ done' = 0
  /\ c' = 0
  /\ result' = SOX_SUCCESS
  /\ trace' = <<>>
  /\ pc' = "flow"
  /\ UNCHANGED <<rate, number_of_channels, getopts_channels, samples_to_do,
                 samples_done, channels, ret, horizon>>

\* a counter advanced inside the channel loop
SamplesDoneSeenPerChannel(sd, ch) == sd + ch

\* the value of p->samples_done the code of channel ch reads
SamplesDoneSeen(sd, ch) == sd

\* the input samples a channel's combine mode can tell apart
InputsOf(combine) ==
  IF combine = synth_create THEN {0} ELSE {-SOX_SAMPLE_MAX, SOX_SAMPLE_MAX}

\* the body of flow's inner loop up to the offset: the channel after the
\* sample, the phase given to the waveform switch and synth_out
Synthesize(chan, n, r, draws) ==
  IF chan.type < synth_noise THEN
    LET raw   == RawPhase(chan, n, r)
        phase == ReducePhase(raw.phase, chan.phase)
    IN [chan  |-> [chan EXCEPT !.cycle_start_time_s = raw.cycle_start_time_s],
        tonal |-> TRUE, phase |-> phase, redrawn |-> FALSE,
        synth_out |-> ToneOut(chan, phase)]
  ELSE
    CASE chan.type = synth_whitenoise ->
           [chan |-> chan, tonal |-> FALSE, phase |-> 0, redrawn |-> FALSE,
            synth_out |-> DRANQD1(draws[1])]
      [] chan.type = synth_tpdfnoise ->
           [chan |-> chan, tonal |-> FALSE, phase |-> 0, redrawn |-> FALSE,
            synth_out |-> Quot(DRANQD1(draws[1]) + DRANQD1(draws[2]), 2)]
      [] chan.type = synth_pinknoise ->
           LET g == GeneratePinkNoise(chan.pink_noise, draws[1], draws[2])
           IN [chan |-> [chan EXCEPT !.pink_noise = g.state],
               tonal |-> FALSE, phase |-> 0, redrawn |-> FALSE,
               synth_out |-> PinkOutput(g.sum, g.state.pmax)]
      [] chan.type = synth_brownnoise ->
           LET out == BrownOut(chan.lp_last_out, draws)
           IN [chan |-> [chan EXCEPT !.lp_last_out = out],
               tonal |-> FALSE, phase |-> 0,
               redrawn |-> BrownRedrawn(chan.lp_last_out, draws),
               synth_out |-> out]
      [] chan.type = synth_pluck ->
           LET pl == PluckSample(chan)
           IN [chan |-> pl.chan, tonal |-> FALSE, phase |-> 0, redrawn |-> FALSE,
               synth_out |-> pl.synth_out]
      [] OTHER ->
           [chan |-> chan, tonal |-> FALSE, phase |-> 0, redrawn |-> FALSE,
            synth_out |-> 0]

\* one pass of the inner loop: channel c's sample of the current frame
FlowSample ==
  /\ pc = "flow"
  /\ done < len /\ result = SOX_SUCCESS
  /\ c < number_of_channels
  /\ \E draws \in DrawsOf(channels[c + 1].type),
        synth_input \in InputsOf(channels[c + 1].combine) :
       LET chan == channels[c + 1]
           n    == SamplesDoneSeen(samples_done, c)
           s    == Synthesize(chan, n, rate, draws)
           o    == AddOffset(s.synth_out, chan.offset)
       IN /\ chan.type = synth_brownnoise => ~BrownRejected(chan.lp_last_out, draws)
          /\ \E sample \in OutputSamples(chan.combine, o, synth_input) :
               trace' = Append(trace,
                          [chan |-> c, n |-> n, tonal |-> s.tonal, phase |-> s.phase,
                           redrawn |-> s.redrawn, synth_out |-> s.synth_out,
                           with_offset |-> o, synth_input |-> synth_input,
                           sample |-> sample])
          /\ channels' = [channels EXCEPT ![c + 1] = s.chan]
  /\ c' = c + 1
  /\ UNCHANGED <<rate, number_of_channels, getopts_channels, samples_to_do,
                 samples_done, pc, len, done, result, ret, horizon>>

\* the test made on the counter before its increment
EndOfFramePostIncrement(sd, todo, res) ==
  [samples_done |-> sd + 1, result |-> IF sd = todo THEN SOX_EOF ELSE res]

\* if (++p->samples_done == p->samples_to_do) result = SOX_EOF;
EndOfFrame(sd, todo, res) ==
  [samples_done |-> sd + 1, result |-> IF sd + 1 = todo THEN SOX_EOF ELSE res]

\* the end of the outer loop's body, once every channel has its sample
FlowFrameEnd ==
  /\ pc = "flow"
  /\ done < len /\ result = SOX_SUCCESS
  /\ c = number_of_channels
  /\ LET e == EndOfFrame(samples_done, samples_to_do, result)
     IN /\ samples_done' = e.samples_done
        /\ result' = e.result
  /\ done' = done + 1
  /\ c' = 0
  /\ UNCHANGED <<rate, number_of_channels, getopts_channels, samples_to_do,
                 channels, pc, len, trace, ret, horizon>>

\* *isamp = *osamp = done * channels; return result;
FlowReturn ==
  /\ pc = "flow"
  /\ ~(done < len /\ result = SOX_SUCCESS)
  /\ ret' = [result |-> result, isamp |-> done * number_of_channels,
             osamp |-> done * number_of_channels]
  /\ pc' = "idle"
  /\ UNCHANGED <<rate, number_of_channels, getopts_channels, samples_to_do,
                 samples_done, channels, len, done, c, result, trace, horizon>>

Next == Start \/ FlowBegin \/ FlowSample \/ FlowFrameEnd \/ FlowReturn

(***************************************************************************)
(* The states getopts leaves.                                              *)
(***************************************************************************)
Template(type, combine, freq, freq2, sweep, offset, phase, p1, p2, p3) ==
  [create_channel EXCEPT !.type = type, !.combine = combine, !.freq = freq,
     !.freq2 = freq2, !.sweep = sweep, !.offset = offset, !.phase = phase,
     !.p1 = p1, !.p2 = p2, !.p3 = p3]

Unset == -Scale

\* the state before start: priv_t is zeroed, the options are parsed
BeforeStart(r, nch, templates, todo, frames) ==
  /\ rate = r
  /\ number_of_channels = nch
  /\ getopts_channels = templates
  /\ samples_to_do = todo
  /\ samples_done = 0
  /\ channels = <<>>
  /\ pc = "getopts"
  /\ len = 0 /\ done = 0 /\ c = 0 /\ result = SOX_SUCCESS
  /\ trace = <<>>
  /\ ret = [result |-> SOX_SUCCESS, isamp |-> 0, osamp |-> 0]
  /\ horizon = frames

\* templates of three different types, a sweep among them (a sweep needs a length)
EnginePool(todo) ==
  { Template(synth_square, synth_create, 2 * Scale, 2 * Scale, Linear, 0, 0,
             Unset, Unset, Unset),
    Template(synth_sawtooth, synth_create, Scale, Scale, Linear, Half, 0,
             Unset, Unset, Unset),
    Template(synth_trapezium, synth_create, Scale, IF todo = 0 THEN Scale ELSE 2 * Scale,
             Linear, 0, Half \div 2, (2 * Scale) \div 10, (6 * Scale) \div 10, Unset) }

TemplateLists(pool) ==
  UNION { [1 .. t -> pool] : t \in 1 .. MaxTemplates }

Init ==
  \E todo \in 0 .. MaxLimit, nch \in 1 .. MaxChannels :
    \E templates \in TemplateLists(EnginePool(todo)) :
      BeforeStart(8, nch, templates, todo, MaxFrames)

Spec == Init /\ [][Next]_vars

(***************************************************************************)
(* Claims checked under Spec.                                              *)
(***************************************************************************)
\* C1: with a length limit N > 0 (samples_done starting at 0) a flow call
\* returns SOX_EOF exactly when it is the call that produced the N-th frame,
\* and that call produced no frame after the N-th; every other call, and
\* every call when there is no limit, returns SOX_SUCCESS.
C1_CompletionAtLimit ==
  pc = "idle" =>
    /\ ret.result \in {SOX_SUCCESS, SOX_EOF}
    /\ (ret.result = SOX_EOF) <=>
         (samples_to_do > 0 /\ done >= 1 /\ samples_done = samples_to_do)
    /\ (samples_done - done < samples_to_do) => (samples_done <= samples_to_do)
    /\ ret.isamp = done * number_of_channels /\ ret.osamp = ret.isamp

\* a call that was cut short by the limit, after an earlier call
C1_Witness ==
  /\ pc = "idle" /\ ret.result = SOX_EOF
  /\ done >= 1 /\ done < len
  /\ samples_done - done > 0

\* C5: the samples of a flow call are written frame by frame in channel
\* order 0..channels-1, every channel of a frame reads the same value of
\* samples_done, and the counter only ever moves by one, at the end of a
\* frame whose channels have all been computed.
C5_TraceInOrder ==
  pc = "flow" =>
    /\ Len(trace) = done * number_of_channels + c
    /\ \A k \in 1 .. Len(trace) :
         /\ trace[k].chan = (k - 1) % number_of_channels
         /\ trace[k].n = (samples_done - done) + ((k - 1) \div number_of_channels)

C5_CounterStep ==
  samples_done' # samples_done =>
    /\ samples_done' = samples_done + 1
    /\ c = number_of_channels
    /\ Len(trace) = (done + 1) * number_of_channels
    /\ trace' = trace

C5_OncePerFrame == []C5_TraceInOrder /\ [][C5_CounterStep]_vars

\* in the second frame of a call, part of the way through three channels
C5_Witness ==
  /\ pc = "flow" /\ done >= 1
  /\ number_of_channels >= 3 /\ c = 2

\* C6: after start, channel i carries the options of template i mod T
\* (whatever of them start does not derive), and start leaves the
\* templates as they were.
FromTemplate(chan, tmpl) ==
  /\ chan.type = tmpl.type /\ chan.combine = tmpl.combine
  /\ chan.freq2 = tmpl.freq2 /\ chan.sweep = tmpl.sweep
  /\ chan.offset = tmpl.offset /\ chan.phase = tmpl.phase
  /\ (tmpl.sweep # Exp => chan.freq = tmpl.freq)
  /\ (tmpl.p1 >= 0 => chan.p1 = tmpl.p1)
  /\ (tmpl.p2 >= 0 => chan.p2 = tmpl.p2)
  /\ (tmpl.p3 >= 0 => chan.p3 = tmpl.p3)

C6_ChannelsCycle ==
  pc # "getopts" =>
    /\ Len(channels) = number_of_channels
    /\ \A i \in 0 .. (number_of_channels - 1) :
         FromTemplate(channels[i + 1],
                      getopts_channels[(i % Len(getopts_channels)) + 1])

C6_TemplatesCycled ==
  []C6_ChannelsCycle /\ [][getopts_channels' = getopts_channels]_vars

\* more channels than templates, and two templates that differ
C6_Witness ==
  /\ pc = "idle"
  /\ Len(getopts_channels) = 2 /\ number_of_channels = 3
  /\ getopts_channels[1].type # getopts_channels[2].type

(***************************************************************************)
(* SpecTrap: one trapezium channel, for every way getopts can leave its    *)
(* shape parameters (p2 only after p1, p3 only after p2).                  *)
(***************************************************************************)
ShapeGrid == {0, Scale \div 10, Scale \div 4, (4 * Scale) \div 10, Half,
              (6 * Scale) \div 10, Scale}

ShapeInputs ==
  {<<Unset, Unset, Unset>>}
    \cup {<<a, Unset, Unset>> : a \in ShapeGrid}
    \cup {<<a, b, Unset>> : a \in ShapeGrid, b \in ShapeGrid}
    \cup (ShapeGrid \X ShapeGrid \X ShapeGrid)

InitTrap ==
  \E p \in ShapeInputs :
    BeforeStart(8, 1,
      <<Template(synth_trapezium, synth_create, Scale, Scale, Linear, 0, 0,
                 p[1], p[2], p[3])>>,
      0, MaxFrames)

SpecTrap == InitTrap /\ [][Next]_vars

\* C2: after set_default_parameters the shape of a trapezium channel is
\* ordered, 0 <= p1 <= p2 <= p3 <= 1.
C2_TrapeziumOrdered ==
  pc # "getopts" =>
    \A i \in 1 .. Len(channels) :
      channels[i].type = synth_trapezium =>
        /\ 0 <= channels[i].p1
        /\ channels[i].p1 <= channels[i].p2
        /\ channels[i].p2 <= channels[i].p3
        /\ channels[i].p3 <= Scale

(***************************************************************************)
(* SpecPhase: one tonal channel of every type under every sweep law, up    *)
(* and down, for the frames below the length limit.                        *)
(***************************************************************************)
ToneTypes == {synth_sine, synth_square, synth_sawtooth, synth_triangle,
              synth_trapezium, synth_exp}

SweepLaws == {Linear, Square, Exp, Exp_cycle}

SweepFreqs == {Scale, 2 * Scale, 4 * Scale}

InitPhase ==
  \E type \in ToneTypes, sweep \in SweepLaws, f \in SweepFreqs, f2 \in SweepFreqs,
     todo \in 1 .. MaxLimit, ph \in {0, Scale \div 4} :
    /\ (sweep = Exp => f # f2)
    /\ BeforeStart(8, 1,
         <<Template(type, synth_create, f, f2, sweep, 0, ph, Unset, Unset, Unset)>>,
         todo, todo)

SpecPhase == InitPhase /\ [][Next]_vars

\* C3: the phase a tonal channel passes to the waveform switch, after the
\* fmod step, is at least 0 and below 1, for every frame below the limit.
C3_PhaseInUnitInterval ==
  \A k \in 1 .. Len(trace) :
    (trace[k].tonal /\ trace[k].n < samples_to_do) =>
      (0 <= trace[k].phase /\ trace[k].phase < Scale)

(***************************************************************************)
(* SpecSquare: one square channel, 100 Hz at 8000 Hz for 80 frames, and    *)
(* square channels of other duty cycles at a rate of 8.                    *)
(***************************************************************************)
InitSquare ==
  \/ BeforeStart(8000, 1,
       <<Template(synth_square, synth_create, 100 * Scale, 100 * Scale, Linear, 0, 0,
                  Unset, Unset, Unset)>>,
       80, 80)
  \/ \E f \in {Scale, 2 * Scale}, p1 \in {Unset, Scale \div 4, (3 * Scale) \div 4},
        ph \in {0, Scale \div 4} :
       BeforeStart(8, 1,
         <<Template(synth_square, synth_create, f, f, Linear, 0, ph, p1, Unset, Unset)>>,
         0, MaxFrames)

SpecSquare == InitSquare /\ [][Next]_vars

\* C10: the square output is +1 exactly when phase < p1 and -1 otherwise
\* (p1 = 0.5 by default); at 100 Hz and a rate of 8000 with no offset, in
\* create mode, with a limit of 80, frame n is +SOX_SAMPLE_MAX for n < 40
\* and -SOX_SAMPLE_MAX for 40 <= n < 80.
C10_SquareDuty ==
  \A k \in 1 .. Len(trace) :
    channels[trace[k].chan + 1].type = synth_square =>
      /\ trace[k].synth_out =
           (IF trace[k].phase < channels[trace[k].chan + 1].p1 THEN Scale ELSE -Scale)
      /\ (getopts_channels[1].p1 = Unset) => (channels[trace[k].chan + 1].p1 = Half)
      /\ (rate = 8000 /\ samples_to_do = 80) =>
           /\ trace[k].n < 80
           /\ trace[k].sample =
                (IF trace[k].n < 40 THEN SOX_SAMPLE_MAX ELSE -SOX_SAMPLE_MAX)

\* the two frames either side of the duty-cycle boundary, in one call
C10_Witness ==
  /\ rate = 8000 /\ Len(trace) = 2
  /\ trace[1].n = 39 /\ trace[1].sample = SOX_SAMPLE_MAX
  /\ trace[2].n = 40 /\ trace[2].sample = -SOX_SAMPLE_MAX

(***************************************************************************)
(* SpecPink: a pink-noise channel at channel index cstar, behind cstar     *)
(* silent square channels, from start() and from two points far into the   *)
(* stream: just before the top row is drawn for the first time, and just   *)
(* before the index wraps to zero.                                         *)
(***************************************************************************)
PinkTemplates(cstar) ==
  [i \in 1 .. (cstar + 1) |->
     IF i = cstar + 1
       THEN Template(synth_pinknoise, synth_create, 0, 0, Linear, 0, 0, Unset, Unset, Unset)
       ELSE Template(synth_square, synth_create, 0, 0, Linear, 0, 0, Unset, Unset, Unset)]

\* the capped channel indexes: 10 + 2 * cstar <= PINK_MAX_RANDOM_ROWS
CappedIndexes == 0 .. Min(MaxPinkChan, (PINK_MAX_RANDOM_ROWS - 10) \div 2)

\* the generator of channel cstar after `calls' calls whose row draws were
\* all v: the rows below `filled' hold v
PinkAfter(cstar, calls, filled, v) ==
  LET numRows == 10 + 2 * cstar
      fresh   == InitializePinkNoise(ZeroPink, numRows, PinkMask(numRows, "wrap"))
  IN [fresh EXCEPT !.pink_Rows = [i \in 1 .. PINK_MAX_RANDOM_ROWS |->
                                    IF i <= filled THEN v ELSE 0],
                   !.pink_RunningSum = filled * v,
                   !.pink_Index = calls]

\* the state after `calls' frames, between two flow calls
MidStream(cstar, calls, filled, v) ==
  /\ rate = 48000
  /\ number_of_channels = cstar + 1
  /\ getopts_channels = PinkTemplates(cstar)
  /\ samples_to_do = 0
  /\ samples_done = calls
  /\ channels = [i \in 1 .. (cstar + 1) |->
                   IF i = cstar + 1
                     THEN [SweepSetup(PinkTemplates(cstar)[i], 0, 48000)
                             EXCEPT !.pink_noise = PinkAfter(cstar, calls, filled, v)]
                     ELSE StartChannel(PinkTemplates(cstar), i - 1, 0, 48000, "wrap",
                                       NoPluck)]
  /\ pc = "idle"
  /\ len = 0 /\ done = 0 /\ c = 0 /\ result = SOX_SUCCESS
  /\ trace = <<>>
  /\ ret = [result |-> SOX_SUCCESS, isamp |-> 0, osamp |-> 0]
  /\ horizon = calls + MaxPinkCalls

InitPink ==
  \/ \E cstar \in 0 .. MaxPinkChan :
       BeforeStart(48000, cstar + 1, PinkTemplates(cstar), 0, MaxPinkCalls)
  \/ \E cstar \in CappedIndexes, v \in RanExtremes :
       \/ MidStream(cstar, Pow2(9 + 2 * cstar) - 1, 9 + 2 * cstar, v)
       \/ MidStream(cstar, Pow2(10 + 2 * cstar) - 1, 10 + 2 * cstar, v)

SpecPink == InitPink /\ [][Next]_vars

\* C4: a pink-noise channel at channel index c uses 10 + 2*c rows capped at
\* 30: its index mask and scale are those of min(10 + 2*c, 30) rows at every
\* moment after construction, and no row index that InitializePinkNoise or
\* GeneratePinkNoise has read or written reaches PINK_MAX_RANDOM_ROWS.
C4_PinkRowsCapped ==
  \A i \in 1 .. Len(channels) :
    channels[i].type = synth_pinknoise =>
      LET pink == channels[i].pink_noise
          rows == Min(10 + 2 * (i - 1), PINK_MAX_RANDOM_ROWS)
      IN /\ pink.maxRow < PINK_MAX_RANDOM_ROWS
         /\ pink.pink_IndexMask = Pow2(rows) - 1
         /\ pink.pmax = (rows + 1) * Pow2(PINK_RANDOM_BITS - 1)

\* C7: for a row count from 10 through 30 and any draws, the running sum
\* stays within rows * 2^23 in magnitude, so that the sum with the extra
\* draw stays within (rows + 1) * 2^23 and each value GeneratePinkNoise
\* returns lies in [-1, 1].
C7_PinkInRange ==
  \A i \in 1 .. Len(channels) :
    (channels[i].type = synth_pinknoise /\ 10 + 2 * (i - 1) <= PINK_MAX_RANDOM_ROWS) =>
      LET pink == channels[i].pink_noise
      IN /\ pink.pmax = (10 + 2 * (i - 1) + 1) * Pow2(PINK_RANDOM_BITS - 1)
         /\ Abs(pink.pink_RunningSum) + Pow2(PINK_RANDOM_BITS - 1) <= pink.pmax
         /\ \A k \in 1 .. Len(trace) :
              trace[k].chan = i - 1 =>
                (trace[k].synth_out >= -Scale /\ trace[k].synth_out <= Scale)

\* a 30-row generator whose rows and extra draw are all at the least value:
\* the output is exactly -1
C7_Witness ==
  /\ number_of_channels = 11
  /\ \E k \in 1 .. Len(trace) :
       /\ trace[k].chan = 10 /\ trace[k].synth_out = -Scale
       /\ channels[11].pink_noise.pink_RunningSum =
            -channels[11].pink_noise.pmax + Pow2(PINK_RANDOM_BITS - 1)

(***************************************************************************)
(* SpecNoise: one channel of brown, white or TPDF noise, or a square wave  *)
(* (whose values are the two ends of [-1, 1]), at each of five offsets     *)
(* (TPDF noise at the offset 0.5 only, brown noise at 0 and 0.5).          *)
(***************************************************************************)
NoiseTypes == {synth_brownnoise, synth_whitenoise, synth_tpdfnoise, synth_square}

Offsets == {-Scale, -Half, 0, Half, Scale}

InitNoise ==
  \E type \in NoiseTypes, offset \in Offsets :
    /\ (type = synth_tpdfnoise) => (offset = Half)
    /\ (type = synth_brownnoise) => (offset \in {0, Half})
    /\ BeforeStart(8, 1,
         <<Template(type, synth_create, 2 * Scale, 2 * Scale, Linear, offset, 0,
                    Unset, Unset, Unset)>>,
         0, BrownFrames)

SpecNoise == InitNoise /\ [][Next]_vars

\* C8: for a brown-noise channel and any draws, the accumulator lp_last_out
\* and every emitted value stay within [-1, 1], and the accumulator is the
\* value last emitted: a step that would leave the range is redrawn, not
\* stored.
C8_BrownBounded ==
  \A i \in 1 .. Len(channels) :
    channels[i].type = synth_brownnoise =>
      /\ FAbs(channels[i].lp_last_out) <= Scale
      /\ \A k \in 1 .. Len(trace) :
           trace[k].chan = i - 1 => FAbs(trace[k].synth_out) <= Scale
      /\ (number_of_channels = 1 /\ Len(trace) > 0) =>
           channels[i].lp_last_out = trace[Len(trace)].synth_out

\* a sample whose first step left the range and was drawn again
C8_Witness ==
  /\ Len(channels) = 1 /\ channels[1].type = synth_brownnoise
  /\ \E k \in 1 .. Len(trace) :
       trace[k].redrawn /\ FAbs(trace[k].synth_out) <= Scale

\* C9: for a raw value s in [-1, 1] and an offset o in [-1, 1] the offset
\* step s * (1 - |o|) + o stays in [-1, 1]; with offset 0.5 in create mode
\* every output sample lies in [0, SOX_SAMPLE_MAX].
C9_OffsetInRange ==
  \A k \in 1 .. Len(trace) :
    LET chan == channels[trace[k].chan + 1]
    IN (FAbs(trace[k].synth_out) <= Scale /\ FAbs(chan.offset) <= Scale) =>
         /\ FAbs(trace[k].with_offset) <= Scale
         /\ (chan.offset = Half /\ chan.combine = synth_create) =>
              (trace[k].sample >= 0 /\ trace[k].sample <= SOX_SAMPLE_MAX)

\* offset 0.5 in create mode: the raw values +1 and -1 in one call, giving
\* the greatest sample and the sample 0
C9_Witness ==
  /\ Len(channels) = 1 /\ channels[1].offset = Half
  /\ \E j \in 1 .. Len(trace), k \in 1 .. Len(trace) :
       /\ trace[j].synth_out = Scale /\ trace[j].sample = SOX_SAMPLE_MAX
       /\ trace[k].synth_out = -Scale /\ trace[k].sample = 0

(***************************************************************************)
(* SpecPluck: a pluck channel, alone or behind a square channel, at the    *)
(* highest frequencies getopts accepts (the shortest delay buffers) and at *)
(* rates inside and outside 44100..48000.                                  *)
(***************************************************************************)
\* getopts rejects a pluck frequency below 27.5 or above 4220
PluckFreqs == {4000 * Scale, 4220 * Scale}

PluckRates == {8000, 44099, 44100, 48000, 48001, 96000}

\* [p1 [p2 [p3]]]: all defaulted, or p1 and p2 given (one excitation pass,
\* of colour 1)
PluckShapes == {<<Unset, Unset, Unset>>, <<(4 * Scale) \div 10, Scale, Unset>>}

PluckTemplate(f, ph, shape) ==
  Template(synth_pluck, synth_create, f, f, Linear, 0, ph, shape[1], shape[2], shape[3])

InitPluck ==
  \E r \in PluckRates, f \in PluckFreqs, ph \in {0, Half}, shape \in PluckShapes,
     nch \in 1 .. 2, todo \in {0, MaxLimit} :
    BeforeStart(r, nch,
      IF nch = 1 THEN <<PluckTemplate(f, ph, shape)>>
      ELSE <<Template(synth_square, synth_create, 2 * Scale, 2 * Scale, Linear, 0, 0,
                      Unset, Unset, Unset),
             PluckTemplate(f, ph, shape)>>,
      todo, PluckFrames)

SpecPluck == InitPluck /\ [][Next]_vars

\* the effect has a pluck channel
HasPluck ==
  \E i \in 0 .. number_of_channels - 1 :
    getopts_channels[TemplateIndex(i, Len(getopts_channels)) + 1].type = synth_pluck

\* C11: with a pluck channel, start fails, and no sample is ever produced,
\* whenever the rate is outside [44100, 48000]; whenever start succeeds a
\* pluck channel's buffer_len is at least 1 (a computed length of 0 never
\* gets past start), and flow returns nothing but SOX_SUCCESS or, at the
\* length limit, SOX_EOF.
C11_PluckStart ==
  /\ (pc # "getopts" /\ HasPluck /\ (rate < 44100 \/ rate > 48000)) => pc = "failed"
  /\ pc = "failed" =>
       /\ HasPluck /\ (rate < 44100 \/ rate > 48000)
       /\ trace = <<>> /\ samples_done = 0 /\ ret.isamp = 0 /\ ret.osamp = 0
  /\ pc \in {"idle", "flow"} =>
       /\ Len(channels) = number_of_channels
       /\ \A i \in 1 .. Len(channels) :
            channels[i].type = synth_pluck =>
              /\ channels[i].buffer_len >= 1
              /\ Len(channels[i].buffer) = channels[i].buffer_len
  /\ ret.result \in {SOX_SUCCESS, SOX_EOF}
  /\ (pc = "idle" /\ ret.result = SOX_EOF) =>
       (samples_to_do > 0 /\ samples_done = samples_to_do)

\* start has set up a square channel and then refused the pluck channel
\* behind it, the rate being just above the limit
C11_Witness ==
  /\ pc = "failed" /\ rate = 48001
  /\ Len(channels) = 1 /\ number_of_channels = 2

\* the number of samples channel i (from 1) has produced
Produced(i) == samples_done + (IF pc = "flow" /\ c >= i THEN 1 ELSE 0)

C12_PluckPosition ==
  pc \in {"idle", "flow"} =>
    \A i \in 1 .. Len(channels) :
      channels[i].type = synth_pluck =>
        /\ Len(channels[i].buffer) = channels[i].buffer_len
        /\ 0 <= channels[i].pos /\ channels[i].pos < channels[i].buffer_len
        /\ channels[i].pos = Produced(i) % channels[i].buffer_len

C12_PluckStep ==
  pc \in {"idle", "flow"} =>
    \A i \in 1 .. Len(channels) :
      channels[i].type = synth_pluck =>
        LET old == channels[i]
            new == channels'[i]
        IN /\ new.buffer_len = old.buffer_len
           /\ IF pc = "flow" /\ c = i - 1 /\ c' = i
                THEN /\ new.pos = (old.pos + 1) % old.buffer_len
                     /\ new.hp_last_in = old.buffer[old.pos + 1]
                     /\ new.buffer[old.pos + 1] = new.ap_last_out
                     /\ \A j \in 1 .. old.buffer_len :
                          j # old.pos + 1 => new.buffer[j] = old.buffer[j]
                ELSE new.buffer = old.buffer /\ new.pos = old.pos

\* C12: after a successful start, a pluck channel's buffer_len never
\* changes and 0 <= pos < buffer_len; each sample reads buffer[pos], writes
\* the all-pass output back into that cell alone and moves pos to
\* (pos + 1) mod buffer_len, so that sample n rewrites cell n mod
\* buffer_len: every cell once every buffer_len samples.
C12_PluckCircular == []C12_PluckPosition /\ [][C12_PluckStep]_vars

\* the buffer has been gone round twice and pos is back at 0
C12_Witness ==
  /\ pc = "idle" /\ number_of_channels = 1 /\ Len(channels) = 1
  /\ channels[1].type = synth_pluck
  /\ samples_done = 2 * channels[1].buffer_len
  /\ channels[1].pos = 0

\* the sum of the first k cached rows
RECURSIVE SumRows(_, _)
SumRows(rows, k) == IF k = 0 THEN 0 ELSE rows[k] + SumRows(rows, k - 1)

C13_RunningSumIsRowSum ==
  \A i \in 1 .. Len(channels) :
    (channels[i].type = synth_pinknoise /\ 10 + 2 * (i - 1) <= PINK_MAX_RANDOM_ROWS) =>
      channels[i].pink_noise.pink_RunningSum =
        SumRows(channels[i].pink_noise.pink_Rows, 10 + 2 * (i - 1))

C13_PinkStep ==
  \A i \in 1 .. Len(channels) :
    (channels[i].type = synth_pinknoise /\ 10 + 2 * (i - 1) <= PINK_MAX_RANDOM_ROWS) =>
      LET k   == 10 + 2 * (i - 1)
          old == channels[i].pink_noise
          new == channels'[i].pink_noise
      IN IF pc = "flow" /\ c = i - 1 /\ c' = i
           THEN /\ new.pink_Index = (old.pink_Index + 1) % Pow2(k)
                /\ IF new.pink_Index # 0
                     THEN \E row \in 0 .. k - 1 :
                            /\ new.pink_Index % Pow2(row + 1) = Pow2(row)
                            /\ \A j \in 1 .. PINK_MAX_RANDOM_ROWS :
                                 j # row + 1 => new.pink_Rows[j] = old.pink_Rows[j]
                            /\ new.pink_RunningSum =
                                 old.pink_RunningSum - old.pink_Rows[row + 1]
                                   + new.pink_Rows[row + 1]
                     ELSE /\ new.pink_Rows = old.pink_Rows
                          /\ new.pink_RunningSum = old.pink_RunningSum
                /\ \E r2 \in RanExtremes :
                     trace'[Len(trace')].synth_out =
                       PinkOutput(new.pink_RunningSum + r2, new.pmax)
           ELSE new = old

\* C13: for the pink-noise generator with k rows (k <= 30), pink_RunningSum
\* is always the sum of the k cached rows; a call whose wrapped counter is
\* nonzero replaces exactly the row whose index is the counter's lowest set
\* bit, an index below k, and no other row; a call whose wrapped counter is
\* zero changes no row; either call adds one fresh draw to the sum it
\* returns.
C13_PinkRows == []C13_RunningSumIsRowSum /\ [][C13_PinkStep]_vars

\* a call has just wrapped the counter to zero: no row was replaced and
\* the value returned is the running sum with a fresh draw added
C13_Witness ==
  /\ pc = "flow" /\ c = number_of_channels /\ Len(trace) > 0
  /\ channels[c].type = synth_pinknoise
  /\ channels[c].pink_noise.pink_Index = 0
  /\ channels[c].pink_noise.pink_RunningSum # 0
  /\ trace[Len(trace)].chan = c - 1
  /\ trace[Len(trace)].synth_out #
       PinkOutput(channels[c].pink_noise.pink_RunningSum, channels[c].pink_noise.pmax)

====
